---- MODULE Spec2Model ----
(***************************************************************************)
(* FlowMind AI: the React single-page application (App, Dashboard,         *)
(* TaskManager, ChatInterface, CalendarView, VideoReports, VoiceInterface) *)
(* as a state machine, together with the agent nodes sketched in ai_docs.  *)
(*                                                                         *)
(* Strings are modelled as sequences of tokens: a token is a word or the   *)
(* whitespace token " ".  Identifiers and creation times read from         *)
(* Date.now() are modelled as integers.                                    *)
(***************************************************************************)
EXTENDS Integers, Sequences, FiniteSets, TLC

\* ------------------------------------------------------------------ bounds

\* User operations on the shown component (clicks, edits) in one run.
MaxOps == 6

\* Length, in tokens, of a text the user types into a form field.
MaxTextLen == 1

\* ----------------------------------------------------------------- strings

SeqsUpTo(S, n) == UNION {[1..k -> S] : k \in 0..n}

IsSpace(tok) == tok = " "

RECURSIVE TrimStart(_)
TrimStart(s) ==
  IF s # <<>> /\ IsSpace(Head(s)) THEN TrimStart(Tail(s)) ELSE s

RECURSIVE TrimEnd(_)
TrimEnd(s) ==
  IF s # <<>> /\ IsSpace(s[Len(s)]) THEN TrimEnd(SubSeq(s, 1, Len(s) - 1)) ELSE s

\* String.prototype.trim
Trim(s) == TrimEnd(TrimStart(s))

LowerTok(tok) ==
  CASE tok = "Review" -> "review"
    [] tok = "Prepare" -> "prepare"
    [] tok = "Update" -> "update"
    [] tok = "Team" -> "team"
    [] tok = "Code" -> "code"
    [] tok = "Analyze" -> "analyze"
    [] tok = "Q4" -> "q4"
    [] tok = "Create" -> "create"
    [] tok = "Add" -> "add"
    [] tok = "Schedule" -> "schedule"
    [] tok = "A" -> "a"
    [] tok = "REVIEW" -> "review"
    [] OTHER -> tok

\* String.prototype.toLowerCase
ToLowerCase(s) == [i \in 1..Len(s) |-> LowerTok(s[i])]

\* String.prototype.includes
Includes(hay, needle) ==
  \E i \in 0..(Len(hay) - Len(needle)) :
    \A j \in 1..Len(needle) : hay[i + j] = needle[j]

\* What the user can type into a text field.
TypedTokens == {" ", "a"}

TypedTexts == SeqsUpTo(TypedTokens, MaxTextLen)

\* ------------------------------------------------------------ App (tabs)

Tabs == {"dashboard", "chat", "tasks", "calendar", "voice", "video"}

\* ----------------------------------------------------------- TaskManager

Statuses == {"pending", "in_progress", "completed"}

Priorities == {"low", "medium", "high"}

Undefined == "undefined"

\* First reading of Date.now(); the mock data is older.
NowStart == 100

MockTasks ==
  << [id |-> 1, title |-> <<"Review", " ", "quarterly", " ", "reports">>,
      description |-> <<"Analyze", " ", "Q4", " ", "performance", " ", "metrics">>,
      priority |-> "high", status |-> "pending",
      due_date |-> "2024-01-20", created_at |-> 15],
     [id |-> 2, title |-> <<"Prepare", " ", "client", " ", "presentation">>,
      description |-> <<"Create", " ", "slides", " ", "for", " ", "next", " ", "week's", " ", "meeting">>,
      priority |-> "high", status |-> "in_progress",
      due_date |-> "2024-01-18", created_at |-> 14],
     [id |-> 3, title |-> <<"Update", " ", "project", " ", "documentation">>,
      description |-> <<"Add", " ", "recent", " ", "changes", " ", "to", " ", "the", " ", "docs">>,
      priority |-> "medium", status |-> "pending",
      due_date |-> "2024-01-25", created_at |-> 13],
     [id |-> 4, title |-> <<"Team", " ", "one-on-ones">>,
      description |-> <<"Schedule", " ", "individual", " ", "meetings">>,
      priority |-> "medium", status |-> "completed",
      due_date |-> "2024-01-16", created_at |-> 12],
     [id |-> 5, title |-> <<"Code", " ", "review">>,
      description |-> <<"Review", " ", "pull", " ", "requests">>,
      priority |-> "low", status |-> "pending",
      due_date |-> Undefined, created_at |-> 15] >>

EmptyNewTask ==
  [title |-> <<>>, description |-> <<>>, priority |-> "medium", due_date |-> ""]

DueDates == {"", "2024-02-01"}

Descriptions == {<<>>, <<"a">>}

Filters == {"all"} \cup Statuses

SearchTerms == {<<>>, <<"REVIEW">>}

VARIABLES
  activeTab,      \* App.activeTab
  nOps,           \* user operations so far
  now,            \* the latest reading of Date.now()
  tasks,          \* TaskManager.tasks
  filteredTasks,  \* TaskManager.filteredTasks
  taskLoading,    \* TaskManager.loading
  filter,         \* TaskManager.filter
  searchTerm,     \* TaskManager.searchTerm
  showAddTask,    \* TaskManager.showAddTask
  newTask,        \* TaskManager.newTask
  priorityChosen, \* history: the priority select was changed since the dialog opened
  last,           \* history: the last TaskManager handler that ran, and how it ended
  shown,          \* history: the status each task id was last shown with, as <<id, status>>
  messages,       \* ChatInterface.messages
  inputValue,     \* ChatInterface.inputValue
  isLoading,      \* ChatInterface.isLoading
  chatReq,        \* the /api/chat requests the mounted ChatInterface awaits, oldest first
  suggestions,    \* Dashboard.suggestions
  stats,          \* Dashboard.stats
  dashLoading,    \* Dashboard.loading
  dashFetch,      \* where fetchDashboardData of the mounted Dashboard stands
  handled,        \* history: the <<suggestion id, action>> pairs passed to handleSuggestionAction
  events,         \* CalendarView.events
  calLoading,     \* CalendarView.loading
  currentDate,    \* CalendarView.currentDate
  view,           \* CalendarView.view
  showAddEvent,   \* CalendarView.showAddEvent
  newEvent,       \* CalendarView.newEvent
  tz,             \* the time zone the mounted CalendarView runs in: minutes east of UTC
  scan,           \* the last call of mindflow_node: what it read and what it proposed
  taskQueue,      \* the setTasks updaters of TaskManager that wait for the next render
  reports,        \* VideoReports.reports
  videoLoading,   \* VideoReports.loading
  generating,     \* VideoReports.generating
  selectedReport, \* VideoReports.selectedReport: <<>> or <<report id>>
  videoReq,       \* the /api/video-report request of the mounted VideoReports: <<>> or <<type>>
  orphans,        \* the report types requested by instances unmounted since, still awaited
  generated,      \* history: the ids of the reports generateReport has built
  agentRun,       \* the last run of the agent graph: its input, its result, the calls made
  isRecording,    \* VoiceInterface.isRecording
  isPlaying,      \* VoiceInterface.isPlaying
  transcript,     \* VoiceInterface.transcript
  response,       \* VoiceInterface.response
  audioUrl,       \* VoiceInterface.audioUrl
  voiceLoading,   \* VoiceInterface.loading
  voiceReads,     \* the recordings whose FileReader has not ended yet, by number
  voiceReqs,      \* the recordings whose /api/voice request is awaited, by number
  timers,         \* the playbacks whose setTimeout has not fired yet, by number
  playback,       \* the number of the playback playResponse started last
  voiceLast       \* history: the last step of VoiceInterface, and how it ended

appVars == <<activeTab, nOps, now>>

chatVars == <<messages, inputValue, isLoading, chatReq>>

dashVars == <<suggestions, stats, dashLoading, dashFetch, handled>>

taskVars ==
  <<tasks, filteredTasks, taskLoading, filter, searchTerm, showAddTask, newTask,
    priorityChosen, last, shown>>

calVars == <<events, calLoading, currentDate, view, showAddEvent, newEvent, tz>>

mindVars == <<scan>>

batchVars == <<taskQueue>>

\* The state outside the four components above
videoVars ==
  <<reports, videoLoading, generating, selectedReport, videoReq, orphans, generated>>

agentVars == <<agentRun>>

voiceVars ==
  <<isRecording, isPlaying, transcript, response, audioUrl, voiceLoading, voiceReads, voiceReqs,
    timers, playback, voiceLast>>

otherVars == <<mindVars, batchVars, videoVars, agentVars, voiceVars>>

nonVoiceVars == <<taskVars, chatVars, dashVars, calVars, mindVars, batchVars, videoVars, agentVars>>

vars == <<appVars, taskVars, chatVars, dashVars, calVars, otherVars>>

nonTaskVars == <<chatVars, dashVars, calVars, otherVars>>

nonChatVars == <<taskVars, dashVars, calVars, otherVars>>

nonDashVars == <<taskVars, chatVars, calVars, otherVars>>

nonCalVars == <<taskVars, chatVars, dashVars, otherVars>>

NoOp ==
  [op |-> "none", id |-> 0, status |-> "", was |-> "", title |-> <<>>, chose |-> FALSE,
   outcome |-> ""]

\* The statuses the listed tasks are shown with, over what was shown before
Shown(before, ts) ==
  {p \in before : \A i \in 1..Len(ts) : ts[i].id # p[1]}
    \cup {<<ts[i].id, ts[i].status>> : i \in 1..Len(ts)}

\* The mutant of FilterTasks: the search term is compared as typed
FilterTasksCaseSensitive(ts, f, term) ==
  LET byStatus(t) == t.status = f
      filtered1 == IF f # "all" THEN SelectSeq(ts, byStatus) ELSE ts
      bySearch(t) ==
        \/ Includes(ToLowerCase(t.title), term)
        \/ Includes(ToLowerCase(t.description), term)
  IN IF term # <<>> THEN SelectSeq(filtered1, bySearch) ELSE filtered1

\* filterTasks
FilterTasks(ts, f, term) ==
  LET byStatus(t) == t.status = f
      filtered1 == IF f # "all" THEN SelectSeq(ts, byStatus) ELSE ts
      bySearch(t) ==
        \/ Includes(ToLowerCase(t.title), ToLowerCase(term))
        \/ Includes(ToLowerCase(t.description), ToLowerCase(term))
  IN IF term # <<>> THEN SelectSeq(filtered1, bySearch) ELSE filtered1

\* A mutant of MapStatus: the changed task is moved to the head of the list
MapStatusMovesToFront(ts, taskId, status) ==
  LET hit(t) == t.id = taskId
      miss(t) == t.id # taskId
      changed == SelectSeq(ts, hit)
  IN [i \in 1..Len(changed) |-> [changed[i] EXCEPT !.status = status]] \o SelectSeq(ts, miss)

\* The mutant of MapStatus: a task that already has the status goes back to pending
MapStatusToggle(ts, taskId, status) ==
  [i \in 1..Len(ts) |->
     IF ts[i].id = taskId
       THEN [ts[i] EXCEPT !.status = IF ts[i].status = status THEN "pending" ELSE status]
       ELSE ts[i]]

\* prev.map(task => task.id === taskId ? { ...task, status } : task)
MapStatus(ts, taskId, status) ==
  [i \in 1..Len(ts) |->
     IF ts[i].id = taskId THEN [ts[i] EXCEPT !.status = status] ELSE ts[i]]

StatusOf(ts, taskId) ==
  IF \E i \in 1..Len(ts) : ts[i].id = taskId
    THEN ts[CHOOSE i \in 1..Len(ts) : ts[i].id = taskId].status
    ELSE "none"

\* useState initial values of TaskManager: the state of an instance that is not mounted
TaskManagerUnmounted ==
  /\ tasks' = <<>>
  /\ filteredTasks' = <<>>
  /\ taskLoading' = TRUE
  /\ filter' = "all"
  /\ searchTerm' = <<>>
  /\ showAddTask' = FALSE
  /\ newTask' = EmptyNewTask
  /\ priorityChosen' = FALSE
  /\ last' = NoOp
  /\ UNCHANGED shown

\* A fresh TaskManager after its mount effects: fetchTasks, then filterTasks
TaskManagerMounted ==
  /\ tasks' = MockTasks
  /\ filteredTasks' = FilterTasks(MockTasks, "all", <<>>)
  /\ taskLoading' = FALSE
  /\ filter' = "all"
  /\ searchTerm' = <<>>
  /\ showAddTask' = FALSE
  /\ newTask' = EmptyNewTask
  /\ priorityChosen' = FALSE
  /\ last' = [NoOp EXCEPT !.op = "fetchTasks"]
  /\ shown' = Shown(shown, MockTasks)

TaskManagerShown == activeTab = "tasks" /\ ~taskLoading

UserOp == nOps < MaxOps /\ nOps' = nOps + 1

\* setShowAddTask(true)
OpenAddTask ==
  /\ TaskManagerShown /\ UserOp
  /\ ~showAddTask
  /\ showAddTask' = TRUE
  /\ priorityChosen' = FALSE
  /\ last' = NoOp
  /\ UNCHANGED nonTaskVars
  /\ UNCHANGED <<activeTab, now, tasks, shown, filteredTasks, taskLoading, filter, searchTerm, newTask>>

SetNewTaskTitle(t) ==
  /\ TaskManagerShown /\ UserOp
  /\ showAddTask
  /\ newTask' = [newTask EXCEPT !.title = t]
  /\ last' = NoOp
  /\ UNCHANGED nonTaskVars
  /\ UNCHANGED <<activeTab, now, tasks, shown, filteredTasks, taskLoading, filter, searchTerm,
                 showAddTask, priorityChosen>>

SetNewTaskDescription(d) ==
  /\ TaskManagerShown /\ UserOp
  /\ showAddTask
  /\ newTask' = [newTask EXCEPT !.description = d]
  /\ last' = NoOp
  /\ UNCHANGED nonTaskVars
  /\ UNCHANGED <<activeTab, now, tasks, shown, filteredTasks, taskLoading, filter, searchTerm,
                 showAddTask, priorityChosen>>

SetNewTaskPriority(p) ==
  /\ TaskManagerShown /\ UserOp
  /\ showAddTask
  /\ newTask' = [newTask EXCEPT !.priority = p]
  /\ priorityChosen' = TRUE
  /\ last' = NoOp
  /\ UNCHANGED nonTaskVars
  /\ UNCHANGED <<activeTab, now, tasks, shown, filteredTasks, taskLoading, filter, searchTerm,
                 showAddTask>>

SetNewTaskDueDate(d) ==
  /\ TaskManagerShown /\ UserOp
  /\ showAddTask
  /\ newTask' = [newTask EXCEPT !.due_date = d]
  /\ last' = NoOp
  /\ UNCHANGED nonTaskVars
  /\ UNCHANGED <<activeTab, now, tasks, shown, filteredTasks, taskLoading, filter, searchTerm,
                 showAddTask, priorityChosen>>

\* The Cancel button of the Add Task modal: setShowAddTask(false)
CancelAddTask ==
  /\ TaskManagerShown /\ UserOp
  /\ showAddTask
  /\ showAddTask' = FALSE
  /\ last' = NoOp
  /\ UNCHANGED nonTaskVars
  /\ UNCHANGED <<activeTab, now, tasks, shown, filteredTasks, taskLoading, filter, searchTerm,
                 newTask, priorityChosen>>

\* The task addTask builds when Date.now() reads t
BuildTask(nt, t) ==
  [id |-> t, title |-> nt.title, description |-> nt.description,
   priority |-> nt.priority, status |-> "pending",
   due_date |-> IF nt.due_date # "" THEN nt.due_date ELSE Undefined,
   created_at |-> t]

\* The mutant of TitleRejected: the title is tested without trim()
TitleRejectedUntrimmed(nt) == nt.title = <<>>

\* if (!newTask.title.trim()) return;
TitleRejected(nt) == Trim(nt.title) = <<>>

\* addTask, with the filter effect that follows setTasks
AddTask ==
  /\ TaskManagerShown /\ UserOp
  /\ showAddTask
  /\ IF TitleRejected(newTask)
       THEN /\ last' = [NoOp EXCEPT !.op = "addTask", !.title = newTask.title,
                                    !.chose = priorityChosen, !.outcome = "returned"]
            /\ UNCHANGED <<now, tasks, shown, filteredTasks, showAddTask, newTask, priorityChosen>>
       ELSE \E t \in {now, now + 1} :
            /\ now' = t
            /\ tasks' = <<BuildTask(newTask, t)>> \o tasks
            /\ filteredTasks' = FilterTasks(tasks', filter, searchTerm)
            /\ newTask' = EmptyNewTask
            /\ showAddTask' = FALSE
            /\ priorityChosen' = priorityChosen
            /\ shown' = Shown(shown, tasks')
            /\ last' = [NoOp EXCEPT !.op = "addTask", !.id = t, !.title = newTask.title,
                                    !.chose = priorityChosen, !.outcome = "created"]
  /\ UNCHANGED nonTaskVars
  /\ UNCHANGED <<activeTab, taskLoading, filter, searchTerm>>

\* updateTaskStatus(taskId, status), with the filter effect that follows setTasks
UpdateTaskStatus(taskId, status) ==
  /\ tasks' = MapStatus(tasks, taskId, status)
  /\ filteredTasks' = FilterTasks(tasks', filter, searchTerm)
  /\ shown' = Shown(shown, tasks')
  /\ last' = [NoOp EXCEPT !.op = "updateTaskStatus", !.id = taskId, !.status = status,
                          !.was = StatusOf(tasks, taskId), !.outcome = "resolved"]
  /\ UNCHANGED nonTaskVars
  /\ UNCHANGED <<activeTab, now, taskLoading, filter, searchTerm, showAddTask, newTask,
                 priorityChosen>>

\* The task ids a caller can pass: those of the mock data, and one no task has
TaskIdInputs == {MockTasks[i].id : i \in 1..Len(MockTasks)} \cup {0}

\* A call of updateTaskStatus with any task id and status
CallUpdateTaskStatus(taskId, status) ==
  /\ TaskManagerShown /\ UserOp
  /\ UpdateTaskStatus(taskId, status)

\* The status icon button of a listed task
ClickToggle(i) ==
  /\ TaskManagerShown /\ UserOp
  /\ i \in 1..Len(filteredTasks)
  /\ UpdateTaskStatus(filteredTasks[i].id,
                      IF filteredTasks[i].status = "completed" THEN "pending" ELSE "completed")

\* The Start button, rendered for a pending task
ClickStart(i) ==
  /\ TaskManagerShown /\ UserOp
  /\ i \in 1..Len(filteredTasks)
  /\ filteredTasks[i].status = "pending"
  /\ UpdateTaskStatus(filteredTasks[i].id, "in_progress")

\* The Complete button, rendered for a task in progress
ClickComplete(i) ==
  /\ TaskManagerShown /\ UserOp
  /\ i \in 1..Len(filteredTasks)
  /\ filteredTasks[i].status = "in_progress"
  /\ UpdateTaskStatus(filteredTasks[i].id, "completed")

\* The status select: setFilter, then the filter effect
SetFilter(f) ==
  /\ TaskManagerShown /\ UserOp
  /\ f # filter
  /\ filter' = f
  /\ filteredTasks' = FilterTasks(tasks, f, searchTerm)
  /\ last' = NoOp
  /\ UNCHANGED nonTaskVars
  /\ UNCHANGED <<activeTab, now, tasks, shown, taskLoading, searchTerm, showAddTask, newTask,
                 priorityChosen>>

\* The search box: setSearchTerm, then the filter effect
SetSearchTerm(s) ==
  /\ TaskManagerShown /\ UserOp
  /\ s # searchTerm
  /\ searchTerm' = s
  /\ filteredTasks' = FilterTasks(tasks, filter, s)
  /\ last' = NoOp
  /\ UNCHANGED nonTaskVars
  /\ UNCHANGED <<activeTab, now, tasks, shown, taskLoading, filter, showAddTask, newTask,
                 priorityChosen>>

\* ------------------------------------------------- agents (ai_docs, spec 4.2/4.3)

None == <<"None">>

AddTaskPhrase == <<"add", " ", "task">>

CompletePhrase == <<"complete">>

ScheduleEventPhrase == <<"schedule", " ", "event">>

TomorrowPhrase == <<"what", " ", "do", " ", "I", " ", "have", " ", "tomorrow">>

SummarizePhrase == <<"summarize">>

ExplainPhrase == <<"explain">>

\* taskflow_node: the Python test `"add task" in input` is a substring test
taskflow_node(input) ==
  IF Includes(input, AddTaskPhrase) THEN <<"Task added.">>
  ELSE IF Includes(input, CompletePhrase) THEN <<"Task completed.">>
  ELSE None

calendarflow_node(input) ==
  IF Includes(input, ScheduleEventPhrase) THEN <<"Event scheduled.">>
  ELSE IF Includes(input, TomorrowPhrase) THEN <<"Events listed.">>
  ELSE None

infoflow_node(input) ==
  IF Includes(input, SummarizePhrase) THEN <<"Summary provided.">>
  ELSE IF Includes(input, ExplainPhrase) THEN <<"Explanation provided.">>
  ELSE None

\* An agent's intent patterns match the message
Matches(agent, input) ==
  CASE agent = "TaskFlow" -> taskflow_node(input) # None
    [] agent = "CalendarFlow" -> calendarflow_node(input) # None
    [] agent = "InfoFlow" -> infoflow_node(input) # None

\* The answer of MindFlow's general-purpose LLM query
MindFlowAnswer == <<"MindFlow answer">>

\* The same, with CalendarFlow classified before TaskFlow
RouteCalendarFirst(input) ==
  IF Matches("CalendarFlow", input)
    THEN [agent |-> "CalendarFlow", response |-> calendarflow_node(input)]
  ELSE IF Matches("TaskFlow", input)
    THEN [agent |-> "TaskFlow", response |-> taskflow_node(input)]
  ELSE IF Matches("InfoFlow", input)
    THEN [agent |-> "InfoFlow", response |-> infoflow_node(input)]
  ELSE [agent |-> "MindFlow", response |-> MindFlowAnswer]

\* route(message, context): the first agent, in the order TaskFlow,
\* CalendarFlow, InfoFlow, whose patterns match; MindFlow itself otherwise
Route(input) ==
  IF Matches("TaskFlow", input)
    THEN [agent |-> "TaskFlow", response |-> taskflow_node(input)]
  ELSE IF Matches("CalendarFlow", input)
    THEN [agent |-> "CalendarFlow", response |-> calendarflow_node(input)]
  ELSE IF Matches("InfoFlow", input)
    THEN [agent |-> "InfoFlow", response |-> infoflow_node(input)]
  ELSE [agent |-> "MindFlow", response |-> MindFlowAnswer]

\* ---------------------------------------------------------- ChatInterface

\* Conversation turns (user messages) in one mounted ChatInterface.
MaxTurns == 2

WelcomeMessage ==
  [sender |-> "agent", agent |-> "MindFlow",
   content |-> <<"Hello Demo User! I'm FlowMind AI, your proactive productivity assistant.">>]

FallbackText == <<"I'm experiencing some technical difficulties right now, but I'm here to help!">>

FallbackMessage == [sender |-> "agent", agent |-> "MindFlow", content |-> FallbackText]

\* The suggestion buttons under the input
QuickActions ==
  { <<"Show", " ", "my", " ", "tasks">>,
    <<"What", " ", "do", " ", "I", " ", "have", " ", "today?">>,
    <<"Add", " ", "task:", " ", "Review", " ", "reports">>,
    <<"Find", " ", "free", " ", "time", " ", "this", " ", "week">>,
    <<"What", " ", "should", " ", "I", " ", "focus", " ", "on?">> }

\* What the user types into the message box
ChatInputs ==
  TypedTexts \cup
  { AddTaskPhrase \o <<" ", "a">>, CompletePhrase, ScheduleEventPhrase, TomorrowPhrase,
    SummarizePhrase, ExplainPhrase,
    ScheduleEventPhrase \o <<" ">> \o AddTaskPhrase,
    ExplainPhrase \o <<" ">> \o ScheduleEventPhrase,
    SummarizePhrase \o <<" ">> \o CompletePhrase }

\* How the /api/chat call can end
ChatFailures == {"network_error", "http_error", "bad_json"}

ChatInterfaceUnmounted ==
  /\ messages' = <<>>
  /\ inputValue' = <<>>
  /\ isLoading' = FALSE
  /\ chatReq' = <<>>

\* A fresh ChatInterface after its mount effect, which sets the welcome message
ChatInterfaceMounted ==
  /\ messages' = <<WelcomeMessage>>
  /\ inputValue' = <<>>
  /\ isLoading' = FALSE
  /\ chatReq' = <<>>

ChatShown == activeTab = "chat"

UserTurns(msgs) == Cardinality({i \in 1..Len(msgs) : msgs[i].sender = "user"})

\* The textarea, disabled while isLoading
TypeInput(v) ==
  /\ ChatShown /\ UserOp
  /\ ~isLoading
  /\ v # inputValue
  /\ inputValue' = v
  /\ UNCHANGED <<messages, isLoading, chatReq>>
  /\ UNCHANGED nonChatVars
  /\ UNCHANGED <<activeTab, now>>

\* A suggestion button: setInputValue(suggestion)
ClickQuickAction(v) ==
  /\ ChatShown /\ UserOp
  /\ v # inputValue
  /\ inputValue' = v
  /\ UNCHANGED <<messages, isLoading, chatReq>>
  /\ UNCHANGED nonChatVars
  /\ UNCHANGED <<activeTab, now>>

\* The mutant of SendRejected: isLoading is not tested
SendRejectedIgnoresLoading == Trim(inputValue) = <<>>

\* if (!inputValue.trim() || isLoading) return;
SendRejected == Trim(inputValue) = <<>> \/ isLoading

\* sendMessage up to its await of fetch('/api/chat')
SendMessage ==
  /\ ChatShown /\ UserOp
  /\ UserTurns(messages) < MaxTurns
  /\ IF SendRejected
       THEN UNCHANGED chatVars
       ELSE /\ messages' = Append(messages, [sender |-> "user", agent |-> Undefined,
                                              content |-> inputValue])
            /\ inputValue' = <<>>
            /\ isLoading' = TRUE
            /\ chatReq' = Append(chatReq, inputValue)
  /\ UNCHANGED nonChatVars
  /\ UNCHANGED <<activeTab, now>>

\* A mutant of FallbackReply: setMessages([fallbackMessage])
FallbackReplyAlone(msgs) == <<FallbackMessage>>

\* The mutant of FallbackReply: the catch block appends nothing
FallbackReplyDropped(msgs) == msgs

\* catch: setMessages(prev => [...prev, fallbackMessage])
FallbackReply(msgs) == Append(msgs, FallbackMessage)

\* The mutant of ChatResponseOk: the answer waits until no video-report call
\* is awaited
ChatResponseOkAfterVideo ==
  /\ videoReq = <<>> /\ orphans = {}
  /\ chatReq # <<>>
  /\ LET data == Route(chatReq[1])
     IN messages' = Append(messages, [sender |-> "agent", agent |-> data.agent,
                                      content |-> data.response])
  /\ isLoading' = FALSE
  /\ chatReq' = Tail(chatReq)
  /\ UNCHANGED inputValue
  /\ UNCHANGED nonChatVars
  /\ UNCHANGED appVars

\* The /api/chat endpoint answers 200 with {response, agent}: sendMessage
\* appends the agent message, then finally setIsLoading(false)
ChatResponseOk ==
  /\ chatReq # <<>>
  /\ LET data == Route(chatReq[1])
     IN messages' = Append(messages, [sender |-> "agent", agent |-> data.agent,
                                      content |-> data.response])
  /\ isLoading' = FALSE
  /\ chatReq' = Tail(chatReq)
  /\ UNCHANGED inputValue
  /\ UNCHANGED nonChatVars
  /\ UNCHANGED appVars

\* The message of the error the catch block receives
CaughtError(kind) ==
  CASE kind = "network_error" -> <<"TypeError:", " ", "Failed", " ", "to", " ", "fetch">>
    [] kind = "http_error" -> <<"Error:", " ", "Failed", " ", "to", " ", "get", " ", "response">>
    [] kind = "bad_json" -> <<"SyntaxError:", " ", "Unexpected", " ", "token">>

\* The mutant of ChatResponseFails: the catch block shows the error's message
ChatResponseShowsError(kind) ==
  /\ chatReq # <<>>
  /\ kind \in ChatFailures
  /\ messages' = Append(messages, [FallbackMessage EXCEPT !.content = CaughtError(kind)])
  /\ isLoading' = FALSE
  /\ chatReq' = Tail(chatReq)
  /\ UNCHANGED inputValue
  /\ UNCHANGED nonChatVars
  /\ UNCHANGED appVars

\* fetch rejects, the status is not OK, or response.json() rejects: the
\* catch block appends the fallback message, then finally setIsLoading(false)
ChatResponseFails(kind) ==
  /\ chatReq # <<>>
  /\ kind \in ChatFailures
  /\ messages' = FallbackReply(messages)
  /\ isLoading' = FALSE
  /\ chatReq' = Tail(chatReq)
  /\ UNCHANGED inputValue
  /\ UNCHANGED nonChatVars
  /\ UNCHANGED appVars

\* ------------------------------------------------------- The agent graph

Workers == {"TaskFlow", "CalendarFlow", "InfoFlow"}

\* The functions of the tool modules the nodes import
Tools ==
  {"create_task", "complete_task", "delete_task", "list_tasks", "get_calendar_events",
   "create_calendar_event", "summarize", "explain", "find_free_slots", "propose_schedule",
   "query_llm"}

\* What a worker node returns
NodeResult(agent, input) ==
  CASE agent = "TaskFlow" -> taskflow_node(input)
    [] agent = "CalendarFlow" -> calendarflow_node(input)
    [] agent = "InfoFlow" -> infoflow_node(input)

\* The mutant of NodeCalls: TaskFlow hands a completion to calendarflow_node
NodeCallsDelegating(agent, input) ==
  CASE agent = "TaskFlow" ->
         IF Includes(input, AddTaskPhrase) THEN << <<"TaskFlow", "create_task">> >>
         ELSE IF Includes(input, CompletePhrase)
           THEN << <<"TaskFlow", "complete_task">>, <<"TaskFlow", "CalendarFlow">> >>
         ELSE <<>>
    [] agent = "CalendarFlow" ->
         IF Includes(input, ScheduleEventPhrase)
           THEN << <<"CalendarFlow", "create_calendar_event">> >>
         ELSE IF Includes(input, TomorrowPhrase)
           THEN << <<"CalendarFlow", "get_calendar_events">> >>
         ELSE <<>>
    [] agent = "InfoFlow" ->
         IF Includes(input, SummarizePhrase) THEN << <<"InfoFlow", "summarize">> >>
         ELSE IF Includes(input, ExplainPhrase) THEN << <<"InfoFlow", "explain">> >>
         ELSE <<>>

\* The calls a worker node makes, as <<caller, callee>>
NodeCalls(agent, input) ==
  CASE agent = "TaskFlow" ->
         IF Includes(input, AddTaskPhrase) THEN << <<"TaskFlow", "create_task">> >>
         ELSE IF Includes(input, CompletePhrase) THEN << <<"TaskFlow", "complete_task">> >>
         ELSE <<>>
    [] agent = "CalendarFlow" ->
         IF Includes(input, ScheduleEventPhrase)
           THEN << <<"CalendarFlow", "create_calendar_event">> >>
         ELSE IF Includes(input, TomorrowPhrase)
           THEN << <<"CalendarFlow", "get_calendar_events">> >>
         ELSE <<>>
    [] agent = "InfoFlow" ->
         IF Includes(input, SummarizePhrase) THEN << <<"InfoFlow", "summarize">> >>
         ELSE IF Includes(input, ExplainPhrase) THEN << <<"InfoFlow", "explain">> >>
         ELSE <<>>

\* The calls of route(message, context): the chosen worker and its calls, or
\* MindFlow's own LLM query
RouteCalls(input) ==
  LET agent == Route(input).agent
  IN IF agent = "MindFlow" THEN << <<"MindFlow", "query_llm">> >>
     ELSE << <<"MindFlow", agent>> >> \o NodeCalls(agent, input)

IntentPhrases ==
  {AddTaskPhrase, CompletePhrase, ScheduleEventPhrase, TomorrowPhrase, SummarizePhrase,
   ExplainPhrase}

\* The texts given to the graph and to its nodes
AgentInputs ==
  ChatInputs \cup QuickActions
    \cup {p \o <<" ">> \o q : p \in IntentPhrases, q \in IntentPhrases}

NoRun == [entry |-> "none", input |-> <<>>, result |-> <<>>, calls |-> <<>>]

\* A worker node called on its own: node(input, context)
CallNode(agent, input) ==
  /\ agent \in Workers
  /\ agentRun' = [entry |-> agent, input |-> input, result |-> NodeResult(agent, input),
                  calls |-> NodeCalls(agent, input)]
  /\ UNCHANGED <<appVars, taskVars, chatVars, dashVars, calVars>>
  /\ UNCHANGED <<mindVars, batchVars, videoVars, voiceVars>>

\* chat_endpoint(message): graph.run(message) enters at MindFlow
ChatEndpoint(message) ==
  /\ agentRun' = [entry |-> "chat_endpoint", input |-> message,
                  result |-> Route(message).response,
                  calls |-> << <<"chat_endpoint", "MindFlow">> >> \o RouteCalls(message)]
  /\ UNCHANGED <<appVars, taskVars, chatVars, dashVars, calVars>>
  /\ UNCHANGED <<mindVars, batchVars, videoVars, voiceVars>>

\* -------------------------------------------------------------- Dashboard

InitialStats == [pendingTasks |-> 0, completedToday |-> 0, todayEvents |-> 0, urgentTasks |-> 0]

MockStats == [pendingTasks |-> 8, completedToday |-> 3, todayEvents |-> 4, urgentTasks |-> 2]

MockSuggestions ==
  << [id |-> 1, type |-> "schedule_task", priority |-> "high"],
     [id |-> 2, type |-> "break_reminder", priority |-> "medium"],
     [id |-> 3, type |-> "priority_review", priority |-> "low"] >>

SuggestionActions == {"accept", "dismiss"}

DashboardUnmounted ==
  /\ suggestions' = <<>>
  /\ stats' = InitialStats
  /\ dashLoading' = TRUE
  /\ dashFetch' = "idle"

\* A fresh Dashboard: its mount effect has called fetchDashboardData, which
\* awaits the tasks fetch
DashboardMounted ==
  /\ suggestions' = <<>>
  /\ stats' = InitialStats
  /\ dashLoading' = TRUE
  /\ dashFetch' = "tasks"

\* fetch(`/api/user/${user.id}/tasks`) resolves (with any status)
DashTasksFetched ==
  /\ dashFetch = "tasks"
  /\ dashFetch' = "events"
  /\ UNCHANGED <<suggestions, stats, dashLoading, handled>>
  /\ UNCHANGED nonDashVars
  /\ UNCHANGED appVars

\* fetch(`/api/user/${user.id}/events`) resolves: setStats, setSuggestions,
\* setLoading(false)
DashEventsFetched ==
  /\ dashFetch = "events"
  /\ stats' = MockStats
  /\ suggestions' = MockSuggestions
  /\ dashLoading' = FALSE
  /\ dashFetch' = "idle"
  /\ UNCHANGED handled
  /\ UNCHANGED nonDashVars
  /\ UNCHANGED appVars

\* Either fetch rejects: the catch block logs and sets loading to false
DashFetchFails ==
  /\ dashFetch \in {"tasks", "events"}
  /\ dashLoading' = FALSE
  /\ dashFetch' = "idle"
  /\ UNCHANGED <<suggestions, stats, handled>>
  /\ UNCHANGED nonDashVars
  /\ UNCHANGED appVars

RemoveSuggestion(sgs, suggestionId) ==
  LET keep(sg) == sg.id # suggestionId IN SelectSeq(sgs, keep)

\* The mutant of HandleSuggestionAction: accepting a schedule_task suggestion
\* writes the event itself
HandleSuggestionActionWritesEvent(i, action) ==
  /\ activeTab = "dashboard" /\ ~dashLoading /\ UserOp
  /\ i \in 1..Len(suggestions)
  /\ suggestions' = RemoveSuggestion(suggestions, suggestions[i].id)
  /\ handled' = handled \cup {<<suggestions[i].id, action>>}
  /\ IF action = "accept" /\ suggestions[i].type = "schedule_task"
       THEN /\ events' = Append(events, [id |-> now, title |-> <<"Quarterly", " ", "Report">>])
            /\ stats' = [stats EXCEPT !.todayEvents = @ + 1]
       ELSE UNCHANGED <<events, stats>>
  /\ UNCHANGED <<dashLoading, dashFetch>>
  /\ UNCHANGED <<taskVars, chatVars, otherVars>>
  /\ UNCHANGED <<calLoading, currentDate, view, showAddEvent, newEvent, tz>>
  /\ UNCHANGED <<activeTab, now>>

\* The Accept and Dismiss buttons: handleSuggestionAction(suggestionId, action)
HandleSuggestionAction(i, action) ==
  /\ activeTab = "dashboard" /\ ~dashLoading /\ UserOp
  /\ i \in 1..Len(suggestions)
  /\ suggestions' = RemoveSuggestion(suggestions, suggestions[i].id)
  /\ handled' = handled \cup {<<suggestions[i].id, action>>}
  /\ UNCHANGED <<stats, dashLoading, dashFetch>>
  /\ UNCHANGED nonDashVars
  /\ UNCHANGED <<activeTab, now>>

\* ----------------------------------------------------------- CalendarView

\* A local wall-clock time is counted in minutes from 2024-01-01T00:00; a
\* Date is held as its local wall-clock time, and the time zone is a fixed
\* offset in minutes east of UTC.

MinutesPerDay == 24 * 60

\* The local time 2024-01-<d>T<h>:<mi>
Jan2024(d, h, mi) == ((d - 1) * 24 + h) * 60 + mi

\* The date part "YYYY-MM-DD" of a local time string, as a day number
DatePart(t) == t \div MinutesPerDay

IsLeap(y) == (y % 4 = 0 /\ y % 100 # 0) \/ y % 400 = 0

DaysInMonth(y, m) ==
  IF m = 2 THEN (IF IsLeap(y) THEN 29 ELSE 28)
  ELSE IF m \in {4, 6, 9, 11} THEN 30 ELSE 31

\* The day number of the first day of month m (1..12) of year y
RECURSIVE FirstOfMonth(_, _)
FirstOfMonth(y, m) ==
  IF y = 2024 /\ m = 1 THEN 0
  ELSE IF y > 2024 \/ (y = 2024 /\ m > 1)
    THEN (IF m = 1 THEN FirstOfMonth(y - 1, 12) + DaysInMonth(y - 1, 12)
                   ELSE FirstOfMonth(y, m - 1) + DaysInMonth(y, m - 1))
    ELSE (IF m = 12 THEN FirstOfMonth(y + 1, 1) - DaysInMonth(y, 12)
                    ELSE FirstOfMonth(y, m + 1) - DaysInMonth(y, m))

\* The year and month (1..12) a day number falls in
RECURSIVE MonthOfFrom(_, _, _)
MonthOfFrom(y, m, day) ==
  IF day < FirstOfMonth(y, m)
    THEN (IF m = 1 THEN MonthOfFrom(y - 1, 12, day) ELSE MonthOfFrom(y, m - 1, day))
  ELSE IF day >= FirstOfMonth(y, m) + DaysInMonth(y, m)
    THEN (IF m = 12 THEN MonthOfFrom(y + 1, 1, day) ELSE MonthOfFrom(y, m + 1, day))
  ELSE <<y, m>>

MonthOf(day) == MonthOfFrom(2024, 1, day)

\* Date.prototype.getDate
GetDate(date) ==
  LET ym == MonthOf(DatePart(date))
  IN DatePart(date) - FirstOfMonth(ym[1], ym[2]) + 1

\* Date.prototype.getDay: 2024-01-01 is a Monday
GetDay(date) == (DatePart(date) + 1) % 7

\* Date.prototype.setDate(getDate() + n)
AddDays(date, n) == date + n * MinutesPerDay

\* Date.prototype.setMonth(getMonth() + n), n = 1 or -1: a day past the end
\* of the target month runs over into the month after it
AddMonth(date, n) ==
  LET ym == MonthOf(DatePart(date))
      m == ym[2] + n
      ty == IF m = 0 THEN ym[1] - 1 ELSE IF m = 13 THEN ym[1] + 1 ELSE ym[1]
      tm == IF m = 0 THEN 12 ELSE IF m = 13 THEN 1 ELSE m
  IN (FirstOfMonth(ty, tm) + GetDate(date) - 1) * MinutesPerDay + (date % MinutesPerDay)

\* date.toISOString().split('T')[0]: the UTC date of the instant
IsoDate(date, offset) == DatePart(date - offset)

\* The time zones of the browser
TzOffsets == {-480, 0, 540}

\* What new Date() reads when CalendarView mounts
CalendarNows == {Jan2024(15, 17, 0), Jan2024(16, 8, 0), Jan2024(31, 12, 0)}

MockEvents ==
  << [id |-> 1, title |-> <<"Team", " ", "Meeting">>,
      description |-> <<"Weekly", " ", "team", " ", "sync">>,
      start_time |-> <<Jan2024(16, 9, 0)>>, end_time |-> <<Jan2024(16, 10, 0)>>,
      location |-> <<"Conference", " ", "Room", " ", "A">>],
     [id |-> 2, title |-> <<"Project", " ", "Review">>,
      description |-> <<"Q4", " ", "project", " ", "review", " ", "meeting">>,
      start_time |-> <<Jan2024(16, 14, 0)>>, end_time |-> <<Jan2024(16, 15, 30)>>,
      location |-> <<"Virtual">>],
     [id |-> 3, title |-> <<"Client", " ", "Call">>,
      description |-> <<"Monthly", " ", "client", " ", "check-in">>,
      start_time |-> <<Jan2024(17, 11, 0)>>, end_time |-> <<Jan2024(17, 12, 0)>>,
      location |-> <<"Phone">>],
     [id |-> 4, title |-> <<"Design", " ", "Workshop">>,
      description |-> <<"UX", " ", "design", " ", "brainstorming", " ", "session">>,
      start_time |-> <<Jan2024(18, 13, 0)>>, end_time |-> <<Jan2024(18, 16, 0)>>,
      location |-> <<"Design", " ", "Studio">>],
     [id |-> 5, title |-> <<"One-on-One", " ", "with", " ", "Sarah">>,
      description |-> <<"Weekly", " ", "check-in">>,
      start_time |-> <<Jan2024(19, 15, 0)>>, end_time |-> <<Jan2024(19, 15, 30)>>,
      location |-> <<"Office">>] >>

EmptyNewEvent ==
  [title |-> <<>>, description |-> <<>>, start_time |-> <<>>, end_time |-> <<>>,
   location |-> <<>>]

\* The values of a datetime-local input: empty, or one local time
EventTimeInputs == {<<>>, <<Jan2024(16, 11, 0)>>, <<Jan2024(16, 12, 0)>>}

Views == {"day", "week", "month"}

CalendarViewUnmounted ==
  /\ events' = <<>>
  /\ calLoading' = TRUE
  /\ currentDate' = 0
  /\ view' = "week"
  /\ showAddEvent' = FALSE
  /\ newEvent' = EmptyNewEvent
  /\ tz' = 0

\* A fresh CalendarView after its mount effect, fetchEvents; the time zone
\* is the one the browser runs in
CalendarViewMounted ==
  /\ events' = MockEvents
  /\ calLoading' = FALSE
  /\ currentDate' \in CalendarNows
  /\ view' = "week"
  /\ showAddEvent' = FALSE
  /\ newEvent' = EmptyNewEvent
  /\ tz' \in TzOffsets

CalendarShown == activeTab = "calendar" /\ ~calLoading

\* setShowAddEvent(true)
OpenAddEvent ==
  /\ CalendarShown /\ UserOp
  /\ ~showAddEvent
  /\ showAddEvent' = TRUE
  /\ UNCHANGED <<events, calLoading, currentDate, view, newEvent, tz>>
  /\ UNCHANGED nonCalVars
  /\ UNCHANGED <<activeTab, now>>

\* An input of the Add Event modal: setNewEvent(prev => ({ ...prev, [field]: value }))
SetNewEventField(field, value) ==
  /\ CalendarShown /\ UserOp
  /\ showAddEvent
  /\ newEvent' = [newEvent EXCEPT ![field] = value]
  /\ UNCHANGED <<events, calLoading, currentDate, view, showAddEvent, tz>>
  /\ UNCHANGED nonCalVars
  /\ UNCHANGED <<activeTab, now>>

\* The Cancel button of the Add Event modal: setShowAddEvent(false)
CancelAddEvent ==
  /\ CalendarShown /\ UserOp
  /\ showAddEvent
  /\ showAddEvent' = FALSE
  /\ UNCHANGED <<events, calLoading, currentDate, view, newEvent, tz>>
  /\ UNCHANGED nonCalVars
  /\ UNCHANGED <<activeTab, now>>

\* if (!newEvent.title.trim() || !newEvent.start_time || !newEvent.end_time) return;
EventRejected(ne) ==
  Trim(ne.title) = <<>> \/ ne.start_time = <<>> \/ ne.end_time = <<>>

\* The event addEvent builds when Date.now() reads t
BuildEvent(ne, t) ==
  [id |-> t, title |-> ne.title, description |-> ne.description,
   start_time |-> ne.start_time, end_time |-> ne.end_time, location |-> ne.location]

\* addEvent
AddEvent ==
  /\ CalendarShown /\ UserOp
  /\ showAddEvent
  /\ IF EventRejected(newEvent)
       THEN UNCHANGED <<now, events, newEvent, showAddEvent>>
       ELSE \E t \in {now, now + 1} :
            /\ now' = t
            /\ events' = Append(events, BuildEvent(newEvent, t))
            /\ newEvent' = EmptyNewEvent
            /\ showAddEvent' = FALSE
  /\ UNCHANGED <<calLoading, currentDate, view, tz>>
  /\ UNCHANGED nonCalVars
  /\ UNCHANGED activeTab

\* newDate of navigateDate(direction) for the current date and view
NewDate(date, v, direction) ==
  LET step == IF direction = "next" THEN 1 ELSE -1
  IN IF v = "day" THEN AddDays(date, step)
     ELSE IF v = "week" THEN AddDays(date, 7 * step)
     ELSE AddMonth(date, step)

\* navigateDate(direction), then the effect on currentDate: fetchEvents
NavigateDate(direction) ==
  /\ CalendarShown /\ UserOp
  /\ currentDate' = NewDate(currentDate, view, direction)
  /\ events' = MockEvents
  /\ calLoading' = FALSE
  /\ UNCHANGED <<view, showAddEvent, newEvent, tz>>
  /\ UNCHANGED nonCalVars
  /\ UNCHANGED <<activeTab, now>>

\* A view button: setView(viewType)
SetView(v) ==
  /\ CalendarShown /\ UserOp
  /\ v # view
  /\ view' = v
  /\ UNCHANGED <<events, calLoading, currentDate, showAddEvent, newEvent, tz>>
  /\ UNCHANGED nonCalVars
  /\ UNCHANGED <<activeTab, now>>

\* getWeekDays: the seven days from the Sunday of currentDate's week
GetWeekDays(date) == {AddDays(AddDays(date, -GetDay(date)), i) : i \in 0..6}

\* getEventsForDate(date): the events whose start_time starts with the ISO date
GetEventsForDate(evs, date, offset) ==
  LET onDate(e) == DatePart(e.start_time[1]) = IsoDate(date, offset)
  IN SelectSeq(evs, onDate)

\* The dates the rendered view passes to getEventsForDate
QueriedDates ==
  IF ~CalendarShown THEN {}
  ELSE IF view = "week" THEN GetWeekDays(currentDate)
  ELSE IF view = "day" THEN {currentDate}
  ELSE {}

\* ----------------------------------------------------------- VideoReports

ReportTypes == {"daily", "weekly", "motivational"}

MockReports ==
  << [id |-> 1, report_type |-> "daily"],
     [id |-> 2, report_type |-> "weekly"],
     [id |-> 3, report_type |-> "motivational"] >>

\* How the /api/video-report call can end without a report
VideoFailures == {"network_error", "http_error", "bad_json"}

nonVideoVars ==
  <<taskVars, chatVars, dashVars, calVars, mindVars, batchVars, agentVars, voiceVars>>

\* useState initial values of VideoReports; a request the instance awaits
\* goes on without it
VideoReportsUnmounted ==
  /\ reports' = <<>>
  /\ videoLoading' = FALSE
  /\ generating' = FALSE
  /\ selectedReport' = <<>>
  /\ videoReq' = <<>>
  /\ orphans' = orphans \cup {videoReq[k] : k \in 1..Len(videoReq)}

\* A fresh VideoReports after its mount effect: fetchReports sets the mock reports
VideoReportsMounted ==
  /\ reports' = MockReports
  /\ videoLoading' = FALSE
  /\ generating' = FALSE
  /\ selectedReport' = <<>>
  /\ videoReq' = <<>>
  /\ UNCHANGED orphans

VideoShown == activeTab = "video"

\* A Generate button, disabled while generating: generateReport(reportType)
\* up to its await of fetch('/api/video-report')
GenerateReport(reportType) ==
  /\ VideoShown /\ UserOp
  /\ ~generating
  /\ generating' = TRUE
  /\ videoReq' = <<reportType>>
  /\ UNCHANGED <<reports, videoLoading, selectedReport, orphans, generated>>
  /\ UNCHANGED nonVideoVars
  /\ UNCHANGED <<activeTab, now>>

\* The report generateReport builds when Date.now() reads t
NewReport(reportType, t) == [id |-> t, report_type |-> reportType]

\* The call answers 200: the new report is put first, then finally
\* setGenerating(false)
VideoResponseOk ==
  /\ videoReq # <<>>
  /\ \E t \in {now, now + 1} :
       /\ now' = t
       /\ reports' = <<NewReport(videoReq[1], t)>> \o reports
       /\ generated' = generated \cup {t}
  /\ generating' = FALSE
  /\ videoReq' = <<>>
  /\ UNCHANGED <<videoLoading, selectedReport, orphans>>
  /\ UNCHANGED nonVideoVars
  /\ UNCHANGED <<activeTab, nOps>>

\* The call fails: the catch block alerts, then finally setGenerating(false)
VideoResponseFails(kind) ==
  /\ videoReq # <<>>
  /\ kind \in VideoFailures
  /\ generating' = FALSE
  /\ videoReq' = <<>>
  /\ UNCHANGED <<reports, videoLoading, selectedReport, orphans, generated>>
  /\ UNCHANGED nonVideoVars
  /\ UNCHANGED appVars

\* The call of an unmounted instance answers 200: generateReport builds the
\* report, and setReports on the unmounted instance does nothing
OrphanResponseOk(reportType) ==
  /\ reportType \in orphans
  /\ orphans' = orphans \ {reportType}
  /\ \E t \in {now, now + 1} :
       /\ now' = t
       /\ generated' = generated \cup {t}
  /\ UNCHANGED <<reports, videoLoading, generating, selectedReport, videoReq>>
  /\ UNCHANGED nonVideoVars
  /\ UNCHANGED <<activeTab, nOps>>

\* The call of an unmounted instance fails
OrphanResponseFails(reportType) ==
  /\ reportType \in orphans
  /\ orphans' = orphans \ {reportType}
  /\ UNCHANGED <<reports, videoLoading, generating, selectedReport, videoReq, generated>>
  /\ UNCHANGED nonVideoVars
  /\ UNCHANGED appVars

\* --------------------------------------------------------- VoiceInterface

\* The texts of VoiceInterface are not taken apart: each is one string, and
\* '' is the empty string.

MockTranscriptions ==
  << "Show me my tasks for today", "What do I have on my calendar?",
     "Add a task to review quarterly reports", "Schedule a meeting with the team tomorrow",
     "What should I focus on today?" >>

MockResponses ==
  << "You have 5 pending tasks today.", "Today you have 3 events.",
     "I've added \"Review quarterly reports\" to your task list with high priority.",
     "I can help you schedule that meeting.",
     "Based on your priorities, I recommend focusing on your high-priority tasks first." >>

\* The demo fallback of the catch block of processVoiceInput for randomIndex + 1 = i
DemoFallback(i) ==
  [transcript |-> MockTranscriptions[i], response |-> MockResponses[i],
   audioUrl |-> "demo-audio-url"]

\* What /api/voice answers with status 200: {transcription, response, audio_url}
VoiceAnswers ==
  { [transcription |-> "Show me my pending tasks", response |-> "You have 3 pending tasks.",
     audio_url |-> "/audio/1.mp3"],
    [transcription |-> "What do I have today?", response |-> "Today you have 2 events.",
     audio_url |-> "/audio/2.mp3"] }

\* How the /api/voice call can end without an answer
VoiceFailures == {"network_error", "http_error", "bad_json"}

\* reader.result?.toString().split(',')[1] of a recording: '' when nothing
\* was recorded
Base64Audios == {"", "UklGRg"}

NoVoiceOp == [op |-> "none", id |-> 0, playback |-> 0, wasPlaying |-> FALSE, handled |-> FALSE,
              before |-> <<"", "", "">>]

\* useState initial values of VoiceInterface, which has no mount effect;
\* what an unmounted instance awaited goes on without effect
VoiceInterfaceInitial ==
  /\ isRecording' = FALSE
  /\ isPlaying' = FALSE
  /\ transcript' = ""
  /\ response' = ""
  /\ audioUrl' = ""
  /\ voiceLoading' = FALSE
  /\ voiceReads' = {}
  /\ voiceReqs' = {}
  /\ timers' = {}
  /\ playback' = 0
  /\ voiceLast' = NoVoiceOp

VoiceShown == activeTab = "voice"

\* The record button while not recording, disabled while loading:
\* startRecording; getUserMedia grants the microphone or rejects
StartRecording(granted) ==
  /\ VoiceShown /\ UserOp
  /\ ~voiceLoading
  /\ ~isRecording
  /\ isRecording' = granted
  /\ voiceLast' = NoVoiceOp
  /\ UNCHANGED <<isPlaying, transcript, response, audioUrl, voiceLoading, voiceReads, voiceReqs,
                 timers, playback>>
  /\ UNCHANGED nonVoiceVars
  /\ UNCHANGED <<activeTab, now>>

\* The record button while recording: stopRecording, and the onstop handler
\* of the recorder, which runs processVoiceInput to its end: setLoading(true),
\* reader.readAsDataURL(audioBlob), which returns at once, and finally
\* setLoading(false)
StopRecording ==
  /\ VoiceShown /\ UserOp
  /\ ~voiceLoading
  /\ isRecording
  /\ isRecording' = FALSE
  /\ voiceLoading' = FALSE
  /\ voiceReads' = voiceReads \cup {nOps'}
  /\ voiceLast' = [NoVoiceOp EXCEPT !.op = "processVoiceInput", !.id = nOps']
  /\ UNCHANGED <<isPlaying, transcript, response, audioUrl, voiceReqs, timers, playback>>
  /\ UNCHANGED nonVoiceVars
  /\ UNCHANGED <<activeTab, now>>

\* reader.onloadend of recording id: fetch('/api/voice') is called if the
\* recording holds audio
ReaderLoadEnd(id, base64Audio) ==
  /\ id \in voiceReads
  /\ voiceReads' = voiceReads \ {id}
  /\ voiceReqs' = IF base64Audio # "" THEN voiceReqs \cup {id} ELSE voiceReqs
  /\ voiceLast' = [NoVoiceOp EXCEPT !.op = "onloadend", !.id = id]
  /\ UNCHANGED <<isRecording, isPlaying, transcript, response, audioUrl, voiceLoading, timers,
                 playback>>
  /\ UNCHANGED nonVoiceVars
  /\ UNCHANGED appVars

\* The /api/voice call of recording id answers 200 with data
VoiceResponseOk(id, data) ==
  /\ id \in voiceReqs
  /\ voiceReqs' = voiceReqs \ {id}
  /\ transcript' = data.transcription
  /\ response' = data.response
  /\ audioUrl' = data.audio_url
  /\ voiceLast' = [NoVoiceOp EXCEPT !.op = "voiceOk", !.id = id]
  /\ UNCHANGED <<isRecording, isPlaying, voiceLoading, voiceReads, timers, playback>>
  /\ UNCHANGED nonVoiceVars
  /\ UNCHANGED appVars

\* The /api/voice call of recording id rejects, answers with a status that
\* is not OK, or response.json() rejects: the onloadend callback throws
\* after processVoiceInput has returned, so its catch block does not run
\* and the promise of the callback is rejected with no handler
VoiceResponseFails(id, kind) ==
  /\ id \in voiceReqs
  /\ kind \in VoiceFailures
  /\ voiceReqs' = voiceReqs \ {id}
  /\ voiceLast' = [NoVoiceOp EXCEPT !.op = "voiceFails", !.id = id, !.handled = FALSE,
                                    !.before = <<transcript, response, audioUrl>>]
  /\ UNCHANGED <<isRecording, isPlaying, transcript, response, audioUrl, voiceLoading,
                 voiceReads, timers, playback>>
  /\ UNCHANGED nonVoiceVars
  /\ UNCHANGED appVars

\* The Play button, rendered when response and audioUrl are set and
\* isPlaying is false: playResponse starts a timer that is never cleared
PlayResponse ==
  /\ VoiceShown /\ UserOp
  /\ response # "" /\ audioUrl # ""
  /\ ~isPlaying
  /\ isPlaying' = TRUE
  /\ playback' = nOps'
  /\ timers' = timers \cup {nOps'}
  /\ voiceLast' = [NoVoiceOp EXCEPT !.op = "playResponse", !.playback = nOps']
  /\ UNCHANGED <<isRecording, transcript, response, audioUrl, voiceLoading, voiceReads, voiceReqs>>
  /\ UNCHANGED nonVoiceVars
  /\ UNCHANGED <<activeTab, now>>

\* The Stop button, rendered while isPlaying: stopPlayback
StopPlayback ==
  /\ VoiceShown /\ UserOp
  /\ response # "" /\ audioUrl # ""
  /\ isPlaying
  /\ isPlaying' = FALSE
  /\ voiceLast' = [NoVoiceOp EXCEPT !.op = "stopPlayback", !.playback = playback,
                                    !.wasPlaying = TRUE]
  /\ UNCHANGED <<isRecording, transcript, response, audioUrl, voiceLoading, voiceReads, voiceReqs,
                 timers, playback>>
  /\ UNCHANGED nonVoiceVars
  /\ UNCHANGED <<activeTab, now>>

\* The timer of the playback with number id fires: setIsPlaying(false)
TimerFires(id) ==
  /\ id \in timers
  /\ timers' = timers \ {id}
  /\ isPlaying' = FALSE
  /\ voiceLast' = [NoVoiceOp EXCEPT !.op = "timer", !.id = id, !.playback = playback,
                                    !.wasPlaying = isPlaying]
  /\ UNCHANGED <<isRecording, transcript, response, audioUrl, voiceLoading, voiceReads, voiceReqs,
                 playback>>
  /\ UNCHANGED nonVoiceVars
  /\ UNCHANGED appVars

\* ------------------------------------------------ MindFlow proactive scan

\* Urgent tasks and free slots one scan reads.
MaxScanTasks == 2

MaxSlots == 2

\* task['estimated_time'], in minutes
Efforts == {30, 60}

\* slot['duration'], in minutes
Durations == {60, 90}

\* The urgent tasks the db_tool call returns: task k of the list has id k
UrgentTaskLists ==
  UNION {[1..n -> Efforts] : n \in 0..MaxScanTasks}

UrgentTasks(efforts) ==
  [k \in 1..Len(efforts) |-> [id |-> k, estimated_time |-> efforts[k]]]

\* What find_free_slots returns: slot k lies on 2024-01-(16 + k) from 14:00
FreeSlotLists ==
  UNION {[1..n -> Durations] : n \in 0..MaxSlots}

FreeSlots(durations) ==
  [k \in 1..Len(durations) |->
     [id |-> k, start |-> Jan2024(16 + k, 14, 0), duration |-> durations[k]]]

\* The mutant of ProposeSchedule: the slot is left as it was
ProposeScheduleKeepsSlot(task, slot) ==
  [suggestion |-> [type |-> "schedule_task", task |-> task.id, slot |-> slot.id,
                   start |-> slot.start, end |-> slot.start + task.estimated_time],
   slot |-> slot]

\* propose_schedule(task, slot): emits the schedule_task suggestion for the
\* head of the slot and marks that part of the slot consumed
ProposeSchedule(task, slot) ==
  [suggestion |-> [type |-> "schedule_task", task |-> task.id, slot |-> slot.id,
                   start |-> slot.start, end |-> slot.start + task.estimated_time],
   slot |-> [slot EXCEPT !.start = @ + task.estimated_time,
                         !.duration = @ - task.estimated_time]]

\* if slot['duration'] >= task['estimated_time']
Fits(task, slot) == slot.duration >= task.estimated_time

\* The loops of mindflow_node from task i and slot j on: every slot the task
\* fits is proposed for it, and the loop over the slots goes on after a match
RECURSIVE ScanFrom(_, _, _, _, _)
ScanFrom(urgent_tasks, free_slots, i, j, out) ==
  IF i > Len(urgent_tasks) THEN [free_slots |-> free_slots, proposals |-> out]
  ELSE IF j > Len(free_slots) THEN ScanFrom(urgent_tasks, free_slots, i + 1, 1, out)
  ELSE IF Fits(urgent_tasks[i], free_slots[j])
    THEN LET p == ProposeSchedule(urgent_tasks[i], free_slots[j])
         IN ScanFrom(urgent_tasks, [free_slots EXCEPT ![j] = p.slot], i, j + 1,
                     Append(out, p.suggestion))
  ELSE ScanFrom(urgent_tasks, free_slots, i, j + 1, out)

NoScan ==
  [urgent_tasks |-> <<>>, free_slots |-> <<>>, slots_after |-> <<>>, proposals |-> <<>>,
   result |-> <<>>]

\* mindflow_node(input, context)
MindflowNode(efforts, durations) ==
  /\ UserOp
  /\ LET urgent_tasks == UrgentTasks(efforts)
         free_slots == FreeSlots(durations)
         done == ScanFrom(urgent_tasks, free_slots, 1, 1, <<>>)
     IN scan' = [urgent_tasks |-> urgent_tasks, free_slots |-> free_slots,
                 slots_after |-> done.free_slots, proposals |-> done.proposals,
                 result |-> <<"Proactive suggestions sent.">>]
  /\ UNCHANGED <<activeTab, now>>
  /\ UNCHANGED <<taskVars, chatVars, dashVars, calVars, batchVars, videoVars, agentVars>>
  /\ UNCHANGED voiceVars

\* ------------------------------------- TaskManager: batched state updates

\* setTasks updaters that can wait for one render.
MaxQueue == 2

\* One queued updater applied to the list it receives as prev
ApplyUpdate(prev, u) ==
  IF u.op = "status" THEN MapStatus(prev, u.id, u.status) ELSE <<u.task>> \o prev

\* The mutant of ApplyQueue: every updater starts from the rendered list, so
\* the last one wins
ApplyQueueLastWins(ts, queue) ==
  IF queue = <<>> THEN ts ELSE ApplyUpdate(ts, queue[Len(queue)])

\* React applies the queued updaters in the order of their setTasks calls,
\* each to the result of the one before
RECURSIVE ApplyQueue(_, _)
ApplyQueue(ts, queue) ==
  IF queue = <<>> THEN ts ELSE ApplyQueue(ApplyUpdate(ts, Head(queue)), Tail(queue))

\* The tasks whose status the calls issued together change
BatchTaskIds == {1, 2}

\* updateTaskStatus called before the render of an earlier update: its
\* setTasks(prev => ...) is queued
QueueUpdateTaskStatus(taskId, status) ==
  /\ TaskManagerShown /\ UserOp
  /\ Len(taskQueue) < MaxQueue
  /\ taskQueue' = Append(taskQueue, [op |-> "status", id |-> taskId, status |-> status])
  /\ UNCHANGED <<activeTab, now, taskVars>>
  /\ UNCHANGED <<chatVars, dashVars, calVars, mindVars, videoVars, agentVars, voiceVars>>

\* addTask called before the render of an earlier update: it reads newTask
\* as rendered, and its setTasks, setNewTask and setShowAddTask are queued
QueueAddTask ==
  /\ TaskManagerShown /\ UserOp
  /\ Len(taskQueue) < MaxQueue
  /\ showAddTask
  /\ ~TitleRejected(newTask)
  /\ \E t \in {now, now + 1} :
       /\ now' = t
       /\ taskQueue' = Append(taskQueue, [op |-> "add", task |-> BuildTask(newTask, t)])
  /\ UNCHANGED <<activeTab, taskVars>>
  /\ UNCHANGED <<chatVars, dashVars, calVars, mindVars, videoVars, agentVars, voiceVars>>

\* The render that follows: the queued updaters are applied, and the filter
\* effect runs on the new list
RenderTasks ==
  /\ TaskManagerShown
  /\ taskQueue # <<>>
  /\ tasks' = ApplyQueue(tasks, taskQueue)
  /\ filteredTasks' = FilterTasks(tasks', filter, searchTerm)
  /\ shown' = Shown(shown, tasks')
  /\ IF \E k \in 1..Len(taskQueue) : taskQueue[k].op = "add"
       THEN newTask' = EmptyNewTask /\ showAddTask' = FALSE
       ELSE UNCHANGED <<newTask, showAddTask>>
  /\ taskQueue' = <<>>
  /\ UNCHANGED <<taskLoading, filter, searchTerm, priorityChosen, last>>
  /\ UNCHANGED appVars
  /\ UNCHANGED <<chatVars, dashVars, calVars, mindVars, videoVars, agentVars, voiceVars>>

\* -------------------------------------------------------------------- App

\* A sidebar button: setActiveTab(tab); renderActiveTab unmounts the shown
\* component and mounts the chosen one, whose mount effects run
SetActiveTab(tab) ==
  /\ tab # activeTab
  /\ activeTab' = tab
  /\ IF tab = "tasks" THEN TaskManagerMounted ELSE TaskManagerUnmounted
  /\ IF tab = "chat" THEN ChatInterfaceMounted ELSE ChatInterfaceUnmounted
  /\ IF tab = "dashboard" THEN DashboardMounted ELSE DashboardUnmounted
  /\ IF tab = "calendar" THEN CalendarViewMounted ELSE CalendarViewUnmounted
  /\ UNCHANGED <<nOps, now, handled>>
  /\ UNCHANGED mindVars
  /\ taskQueue' = <<>>
  /\ IF tab = "video" THEN VideoReportsMounted ELSE VideoReportsUnmounted
  /\ UNCHANGED generated
  /\ UNCHANGED agentVars
  /\ VoiceInterfaceInitial

Init ==
  /\ activeTab = "dashboard"
  /\ nOps = 0
  /\ now = NowStart
  /\ tasks = <<>>
  /\ filteredTasks = <<>>
  /\ taskLoading = TRUE
  /\ filter = "all"
  /\ searchTerm = <<>>
  /\ showAddTask = FALSE
  /\ newTask = EmptyNewTask
  /\ priorityChosen = FALSE
  /\ last = NoOp
  /\ shown = {}
  /\ messages = <<>>
  /\ inputValue = <<>>
  /\ isLoading = FALSE
  /\ chatReq = <<>>
  /\ suggestions = <<>>
  /\ stats = InitialStats
  /\ dashLoading = TRUE
  /\ dashFetch = "tasks"
  /\ handled = {}
  /\ events = <<>>
  /\ calLoading = TRUE
  /\ currentDate = 0
  /\ view = "week"
  /\ showAddEvent = FALSE
  /\ newEvent = EmptyNewEvent
  /\ tz = 0
  /\ scan = NoScan
  /\ taskQueue = <<>>
  /\ reports = <<>>
  /\ videoLoading = FALSE
  /\ generating = FALSE
  /\ selectedReport = <<>>
  /\ videoReq = <<>>
  /\ orphans = {}
  /\ generated = {}
  /\ agentRun = NoRun
  /\ isRecording = FALSE
  /\ isPlaying = FALSE
  /\ transcript = ""
  /\ response = ""
  /\ audioUrl = ""
  /\ voiceLoading = FALSE
  /\ voiceReads = {}
  /\ voiceReqs = {}
  /\ timers = {}
  /\ playback = 0
  /\ voiceLast = NoVoiceOp

NextTasks ==
  \/ \E tab \in Tabs : SetActiveTab(tab)
  \/ OpenAddTask
  \/ \E t \in TypedTexts : SetNewTaskTitle(t)
  \/ \E d \in Descriptions : SetNewTaskDescription(d)
  \/ \E p \in Priorities : SetNewTaskPriority(p)
  \/ \E d \in DueDates : SetNewTaskDueDate(d)
  \/ CancelAddTask
  \/ AddTask
  \/ \E i \in 1..Len(filteredTasks) : ClickToggle(i)
  \/ \E i \in 1..Len(filteredTasks) : ClickStart(i)
  \/ \E i \in 1..Len(filteredTasks) : ClickComplete(i)
  \/ \E f \in Filters : SetFilter(f)
  \/ \E s \in SearchTerms : SetSearchTerm(s)

SpecTasks == Init /\ [][NextTasks]_vars

\* updateTaskStatus called with any arguments, whatever the buttons pass
NextTaskCalls ==
  \/ \E tab \in Tabs : SetActiveTab(tab)
  \/ \E id \in TaskIdInputs, st \in Statuses : CallUpdateTaskStatus(id, st)

SpecTaskCalls == Init /\ [][NextTaskCalls]_vars

NextChat ==
  \/ \E tab \in Tabs : SetActiveTab(tab)
  \/ \E v \in ChatInputs : TypeInput(v)
  \/ \E v \in QuickActions : ClickQuickAction(v)
  \/ SendMessage
  \/ ChatResponseOk
  \/ \E kind \in ChatFailures : ChatResponseFails(kind)

SpecChat == Init /\ [][NextChat]_vars

NextDashboard ==
  \/ \E tab \in Tabs : SetActiveTab(tab)
  \/ DashTasksFetched
  \/ DashEventsFetched
  \/ DashFetchFails
  \/ \E i \in 1..Len(suggestions), a \in SuggestionActions : HandleSuggestionAction(i, a)

SpecDashboard == Init /\ [][NextDashboard]_vars

NextCalendar ==
  \/ \E tab \in Tabs : SetActiveTab(tab)
  \/ OpenAddEvent
  \/ \E t \in TypedTexts : SetNewEventField("title", t)
  \/ \E d \in Descriptions : SetNewEventField("description", d)
  \/ \E t \in EventTimeInputs : SetNewEventField("start_time", t)
  \/ \E t \in EventTimeInputs : SetNewEventField("end_time", t)
  \/ \E l \in Descriptions : SetNewEventField("location", l)
  \/ CancelAddEvent
  \/ AddEvent
  \/ \E direction \in {"prev", "next"} : NavigateDate(direction)
  \/ \E v \in Views : SetView(v)

SpecCalendar == Init /\ [][NextCalendar]_vars

\* Calls of updateTaskStatus and addTask issued together, before a render
NextTaskBatch ==
  \/ \E tab \in {"tasks", "dashboard"} : SetActiveTab(tab)
  \/ OpenAddTask
  \/ \E t \in TypedTexts : SetNewTaskTitle(t)
  \/ \E id \in BatchTaskIds, st \in Statuses : QueueUpdateTaskStatus(id, st)
  \/ QueueAddTask
  \/ RenderTasks

SpecTaskBatch == Init /\ [][NextTaskBatch]_vars

NextVideo ==
  \/ \E tab \in {"video", "dashboard"} : SetActiveTab(tab)
  \/ \E reportType \in ReportTypes : GenerateReport(reportType)
  \/ VideoResponseOk
  \/ \E kind \in VideoFailures : VideoResponseFails(kind)
  \/ \E reportType \in ReportTypes : OrphanResponseOk(reportType)
  \/ \E reportType \in ReportTypes : OrphanResponseFails(reportType)

SpecVideo == Init /\ [][NextVideo]_vars

\* Video reports and chat: a report is requested, then the user chats
NextVideoChat ==
  \/ \E tab \in {"video", "chat"} : SetActiveTab(tab)
  \/ \E reportType \in ReportTypes : GenerateReport(reportType)
  \/ VideoResponseOk
  \/ \E kind \in VideoFailures : VideoResponseFails(kind)
  \/ \E reportType \in ReportTypes : OrphanResponseOk(reportType)
  \/ \E reportType \in ReportTypes : OrphanResponseFails(reportType)
  \/ \E v \in {CompletePhrase, <<"a">>} : TypeInput(v)
  \/ SendMessage
  \/ ChatResponseOk
  \/ \E kind \in ChatFailures : ChatResponseFails(kind)

SpecVideoChat == Init /\ [][NextVideoChat]_vars

\* The agent graph on its own: requests to the endpoint, and nodes called alone
NextAgents ==
  \/ \E message \in AgentInputs : ChatEndpoint(message)
  \/ \E agent \in Workers, input \in AgentInputs : CallNode(agent, input)

SpecAgents == Init /\ [][NextAgents]_vars

\* VoiceInterface: recordings, their processing, and the playback of the answer
NextVoice ==
  \/ \E tab \in {"voice", "dashboard"} : SetActiveTab(tab)
  \/ \E granted \in BOOLEAN : StartRecording(granted)
  \/ StopRecording
  \/ \E id \in voiceReads, base64Audio \in Base64Audios : ReaderLoadEnd(id, base64Audio)
  \/ \E id \in voiceReqs, data \in VoiceAnswers : VoiceResponseOk(id, data)
  \/ \E id \in voiceReqs, kind \in VoiceFailures : VoiceResponseFails(id, kind)
  \/ PlayResponse
  \/ StopPlayback
  \/ \E id \in timers : TimerFires(id)

SpecVoice == Init /\ [][NextVoice]_vars

\* The MindFlow operations: the dashboard's scan results and their Accept
\* and Dismiss buttons, and the proactive scan of mindflow_node
NextMindFlow ==
  \/ DashTasksFetched
  \/ DashEventsFetched
  \/ DashFetchFails
  \/ \E i \in 1..Len(suggestions), a \in SuggestionActions : HandleSuggestionAction(i, a)
  \/ \E efforts \in {<<60>>, <<30, 60>>}, durations \in {<<90>>} :
       MindflowNode(efforts, durations)

SpecMindFlow == Init /\ [][NextMindFlow]_vars

\* The proactive scan over every list of urgent tasks and free slots
NextScan ==
  \E efforts \in UrgentTaskLists, durations \in FreeSlotLists :
    MindflowNode(efforts, durations)

SpecScan == Init /\ [][NextScan]_vars

\* ---------------------------------------------------------------- Claims

\* C1: every message sendMessage submits gets exactly one agent response.
\* In a mounted ChatInterface the conversation is the welcome message followed
\* by user messages and agent messages in strict alternation; a user message
\* is the last one exactly while its request is pending (isLoading), the
\* pending request carries that message, and a finished request, successful
\* or failed, has left exactly one agent message behind it.
C1_ExactlyOneResponse ==
  /\ activeTab # "chat" => messages = <<>> /\ chatReq = <<>>
  /\ activeTab = "chat" =>
       /\ Len(messages) >= 1
       /\ messages[1] = WelcomeMessage
       /\ \A k \in 2..Len(messages) :
            messages[k].sender = IF k % 2 = 0 THEN "user" ELSE "agent"
       /\ isLoading <=> Len(messages) % 2 = 0
       /\ isLoading <=> chatReq # <<>>
       /\ isLoading => chatReq = <<messages[Len(messages)].content>>

\* C1 witness: a message no agent pattern matches was answered, and a message
\* TaskFlow matches got the fallback answer of a failed call.
C1_Witness ==
  /\ Len(messages) = 5
  /\ ~isLoading
  /\ \A a \in {"TaskFlow", "CalendarFlow", "InfoFlow"} : ~Matches(a, messages[2].content)
  /\ messages[3].content = MindFlowAnswer
  /\ Matches("TaskFlow", messages[4].content)
  /\ messages[5] = FallbackMessage

\* C2: the agent that answers is a function of the message: TaskFlow when
\* the message holds a TaskFlow phrase, whatever else it holds; CalendarFlow
\* when it holds a CalendarFlow phrase and no TaskFlow phrase; InfoFlow when
\* it holds an InfoFlow phrase and none of the others; MindFlow exactly when
\* it holds no phrase; and the same message always gets the same answer.
C2_RouteFirstMatch ==
  \A k \in 3..Len(messages) :
    (messages[k].sender = "agent" /\ messages[k] # FallbackMessage) =>
      LET msg == messages[k - 1].content
          agent == messages[k].agent
          task == Includes(msg, AddTaskPhrase) \/ Includes(msg, CompletePhrase)
          cal == Includes(msg, ScheduleEventPhrase) \/ Includes(msg, TomorrowPhrase)
          info == Includes(msg, SummarizePhrase) \/ Includes(msg, ExplainPhrase)
      IN /\ task => agent = "TaskFlow"
         /\ (~task /\ cal) => agent = "CalendarFlow"
         /\ (~task /\ ~cal /\ info) => agent = "InfoFlow"
         /\ agent = "MindFlow" <=> ~(task \/ cal \/ info)
         /\ \A j \in 3..Len(messages) :
              ( /\ messages[j].sender = "agent"
                /\ messages[j] # FallbackMessage
                /\ messages[j - 1].content = msg ) => messages[j] = messages[k]

\* C2 witness: a message with a CalendarFlow phrase and a TaskFlow phrase was
\* answered by TaskFlow.
C2_Witness ==
  \E k \in 3..Len(messages) :
    /\ messages[k].agent = "TaskFlow"
    /\ Includes(messages[k - 1].content, ScheduleEventPhrase)
    /\ Includes(messages[k - 1].content, AddTaskPhrase)

C4_UnknownIdNotFound ==
  [][\A id \in TaskIdInputs :
       (CallUpdateTaskStatus(id, "completed") /\ StatusOf(tasks, id) = "none") =>
         (last'.outcome = "NotFoundError" /\ tasks' = tasks)]_vars

\* C5: addTask with an empty or whitespace-only title creates no task: the
\* task list and the listed tasks stay as they are.
C5_EmptyTitleRejected ==
  [][(AddTask /\ Trim(newTask.title) = <<>>) =>
       /\ tasks' = tasks
       /\ filteredTasks' = filteredTasks
       /\ last'.outcome = "returned"]_vars

\* C5 witness: addTask returned on a title of one space.
C5_Witness ==
  /\ last.op = "addTask"
  /\ last.outcome = "returned"
  /\ last.title = <<" ">>
  /\ tasks = MockTasks

\* C6: the task addTask has just created has the given title, status
\* pending, and priority medium when no priority was chosen in its dialog.
C6_CreatedTaskDefaults ==
  (last.op = "addTask" /\ last.outcome = "created") =>
    /\ tasks[1].id = last.id
    /\ tasks[1].title = last.title
    /\ tasks[1].status = "pending"
    /\ ~last.chose => tasks[1].priority = "medium"

\* C7: the status a task is shown with changes only by pending ->
\* in_progress, pending -> completed, in_progress -> completed or completed
\* -> pending, and only in a call of updateTaskStatus on that task.
C7_StatusChangesForward ==
  [][\A p \in shown : \A q \in shown' :
       (p[1] = q[1] /\ p[2] # q[2]) =>
         /\ <<p[2], q[2]>> \in { <<"pending", "in_progress">>, <<"pending", "completed">>,
                                 <<"in_progress", "completed">>, <<"completed", "pending">> }
         /\ last'.op = "updateTaskStatus"
         /\ last'.id = p[1]]_vars

\* C8: no event of the list ends before it starts.
C8_EndNotBeforeStart ==
  \A i \in 1..Len(events) : events[i].end_time[1] >= events[i].start_time[1]

\* C9: getEventsForDate(date), the query over the day of date, returns no
\* event that starts at or after the end of that day and no event that ends
\* at or before its start.
C9_QueryWithinDay ==
  \A date \in QueriedDates :
    LET start == DatePart(date) * MinutesPerDay
        end == start + MinutesPerDay
        found == GetEventsForDate(events, date, tz)
    IN \A i \in 1..Len(found) :
         /\ found[i].start_time[1] < end
         /\ found[i].end_time[1] > start

\* C10: a suggestion id that was accepted or dismissed is not in the
\* suggestion list again.
C10_HandledNeverListed ==
  \A i \in 1..Len(suggestions) :
    \A action \in SuggestionActions : <<suggestions[i].id, action>> \notin handled

C12_MessagesAppendOnly ==
  [][(activeTab = "chat" /\ activeTab' = "chat") =>
       /\ Len(messages') >= Len(messages)
       /\ SubSeq(messages', 1, Len(messages)) = messages]_vars

\* C12 witness: a conversation of two different user messages, both answered.
C12_Witness ==
  /\ Len(messages) = 5
  /\ messages[2].sender = "user"
  /\ messages[4].sender = "user"
  /\ messages[2].content # messages[4].content
  /\ messages[5].sender = "agent"

\* C13: when the /api/chat call fails, whatever the failure, sendMessage
\* appends the fallback message, whose text is not the error's message, and
\* ends with the request closed and isLoading false.
C13_FailureGivesFallback ==
  [][\A kind \in ChatFailures :
       ChatResponseFails(kind) =>
         /\ messages' = Append(messages, FallbackMessage)
         /\ \A other \in ChatFailures :
              messages'[Len(messages')].content # CaughtError(other)
         /\ ~isLoading'
         /\ chatReq' = <<>>]_vars

\* C13 witness: the first message of a conversation got the fallback answer.
C13_Witness ==
  /\ Len(messages) = 3
  /\ messages[3] = FallbackMessage
  /\ ~isLoading
  /\ chatReq = <<>>

\* C14: accepting or dismissing a suggestion, and a proactive scan, leave
\* the tasks, the events and the task and event counts as they are.
C14_MindFlowLeavesTasksAndEvents ==
  [][( \/ \E i \in 1..Len(suggestions), a \in SuggestionActions :
            HandleSuggestionAction(i, a)
       \/ scan' # scan ) =>
       UNCHANGED <<tasks, filteredTasks, events, stats>>]_vars

\* C14 witness: the schedule_task suggestion was accepted, another was
\* dismissed, and a scan made a proposal.
C14_Witness ==
  /\ <<1, "accept">> \in handled
  /\ \E id \in {2, 3} : <<id, "dismiss">> \in handled
  /\ scan.proposals # <<>>
  /\ stats = MockStats
  /\ events = <<>>

\* C15: when the updates issued together are applied, the task list
\* reflects every one of them: each added task is in the list, every task
\* that was in the list still is, and each task has the status of the last
\* update issued for it (so two completions of one task leave it completed).
C15_NoLostUpdate ==
  [][RenderTasks =>
       /\ \A k \in 1..Len(taskQueue) :
            LET u == taskQueue[k]
            IN IF u.op = "add"
                 THEN \E i \in 1..Len(tasks') : tasks'[i] = u.task
                 ELSE (\A l \in (k + 1)..Len(taskQueue) :
                         ~(taskQueue[l].op = "status" /\ taskQueue[l].id = u.id))
                      => StatusOf(tasks', u.id) \in {u.status, "none"}
       /\ \A i \in 1..Len(tasks) : StatusOf(tasks', tasks[i].id) # "none"
       /\ Len(tasks') =
            Len(tasks) + Cardinality({k \in 1..Len(taskQueue) : taskQueue[k].op = "add"})]_vars

\* C15 witness: an added task and a completion issued together are both in
\* the list, and two completions of one task wait for the next render.
C15_Witness ==
  /\ Len(tasks) = Len(MockTasks) + 1
  /\ StatusOf(tasks, 1) = "completed"
  /\ Len(taskQueue) = 2
  /\ \A k \in 1..2 : taskQueue[k] = [op |-> "status", id |-> 2, status |-> "completed"]

\* C16: whenever the Video Reports screen is shown, every report that
\* generateReport has built is in the report list, to be found by its id.
C16_GeneratedReportRetrievable ==
  VideoShown =>
    \A id \in generated : \E i \in 1..Len(reports) : reports[i].id = id

\* C17: while a video-report call is awaited, a chat message that can be
\* sent is sent, and the answer to a sent chat message can arrive: neither
\* waits for the video call.
C17_VideoCallDoesNotBlockChat ==
  (videoReq # <<>> \/ orphans # {}) =>
    /\ chatReq # <<>> => ENABLED ChatResponseOk
    /\ ( /\ ChatShown
         /\ ~isLoading
         /\ Trim(inputValue) # <<>>
         /\ nOps < MaxOps
         /\ UserTurns(messages) < MaxTurns ) => ENABLED (SendMessage /\ chatReq' # <<>>)

\* C17 witness: a chat message was sent and answered by an agent while the
\* video-report call of the left Video Reports screen is still awaited.
C17_Witness ==
  /\ orphans # {}
  /\ generated = {}
  /\ Len(messages) = 3
  /\ messages[2].sender = "user"
  /\ messages[3].sender = "agent"
  /\ messages[3] # FallbackMessage

\* C18: in one run at most one worker agent is called, a worker is called
\* only by MindFlow, MindFlow only by the entry point, and a worker calls
\* only tools.
C18_OneWorkerNoAgentToAgent ==
  LET calls == agentRun.calls
  IN /\ Cardinality({k \in 1..Len(calls) : calls[k][2] \in Workers}) <= 1
     /\ \A k \in 1..Len(calls) :
          /\ calls[k][2] \in Workers => calls[k][1] = "MindFlow"
          /\ calls[k][2] = "MindFlow" => calls[k][1] = "chat_endpoint"
          /\ calls[k][1] \in Workers => calls[k][2] \in Tools

\* C18 witness: a message with a CalendarFlow phrase and a TaskFlow phrase
\* went from the endpoint to MindFlow, to TaskFlow alone, and to its tool.
C18_Witness ==
  /\ agentRun.entry = "chat_endpoint"
  /\ Includes(agentRun.input, ScheduleEventPhrase)
  /\ agentRun.calls = << <<"chat_endpoint", "MindFlow">>, <<"MindFlow", "TaskFlow">>,
                         <<"TaskFlow", "create_task">> >>

\* C19: a worker node called with any text returns a response text, never
\* nothing.
C19_UnmatchedIntentAnswered ==
  agentRun.entry \in Workers => (agentRun.result # None /\ agentRun.result # <<>>)

\* C20: no two tasks of the list have the same id, and while TaskManager
\* stays mounted every task keeps its id and its place behind the tasks
\* added since.
C20_TaskIdsUniqueAndStable ==
  [][/\ \A i, j \in 1..Len(tasks') : i # j => tasks'[i].id # tasks'[j].id
     /\ (activeTab = "tasks" /\ activeTab' = "tasks") =>
          LET added == Len(tasks') - Len(tasks)
          IN /\ added >= 0
             /\ \A i \in 1..Len(tasks) : tasks'[i + added].id = tasks[i].id]_vars

\* C21: the listed tasks are in the order of their creation, oldest first:
\* no listed task was created later than a task listed after it, under any
\* status filter.
C21_ListedOldestFirst ==
  TaskManagerShown =>
    \A i, j \in 1..Len(filteredTasks) :
      i < j => filteredTasks[i].created_at <= filteredTasks[j].created_at

\* C22: in one scan every urgent task gets at most one schedule_task
\* suggestion, and a scan of one urgent task and one free slot it fits makes
\* exactly one suggestion, for that task and that slot, and reduces the slot.
C22_OneSuggestionPerTask ==
  LET ps == scan.proposals
  IN /\ \A i \in 1..Len(scan.urgent_tasks) :
          Cardinality({k \in 1..Len(ps) : ps[k].task = i}) <= 1
     /\ ( /\ Len(scan.urgent_tasks) = 1
          /\ Len(scan.free_slots) = 1
          /\ Fits(scan.urgent_tasks[1], scan.free_slots[1]) ) =>
          /\ Len(ps) = 1
          /\ ps[1].task = 1
          /\ ps[1].slot = 1
          /\ scan.slots_after[1].duration =
               scan.free_slots[1].duration - scan.urgent_tasks[1].estimated_time

\* C23: the mounted ChatInterface awaits at most one /api/chat request; after
\* the welcome message every user message is the last message or is followed
\* by an agent message, and every agent message follows a user message; and
\* sendMessage called while isLoading, or on empty or whitespace-only input,
\* changes nothing.
C23_OneRequestOutstanding ==
  [][/\ Len(chatReq') <= 1
     /\ \A k \in 2..Len(messages') :
          IF messages'[k].sender = "user"
            THEN k = Len(messages') \/ messages'[k + 1].sender = "agent"
            ELSE k > 2 /\ messages'[k - 1].sender = "user"
     /\ (SendMessage /\ (isLoading \/ Trim(inputValue) = <<>>)) => UNCHANGED chatVars]_vars

\* C23 witness: a request is awaited, and the message box holds a text again:
\* sendMessage called now is rejected only because isLoading is true.
C23_Witness ==
  /\ ChatShown
  /\ isLoading
  /\ Len(chatReq) = 1
  /\ Trim(inputValue) # <<>>
  /\ messages[Len(messages)].sender = "user"
  /\ nOps < MaxOps

\* C24: while a /api/voice request that processVoiceInput started is awaited,
\* loading is true, so that no recording is made meanwhile.
C24_LoadingWhileVoiceRequest ==
  voiceReqs # {} => (voiceLoading /\ ~isRecording)

\* C25: when the /api/voice call has failed, the failure was handled, and
\* transcript, response and audioUrl are a demo fallback: the transcription
\* and the response at one index of the mock lists, and the demo audio URL.
C25_VoiceFailureGivesDemoFallback ==
  voiceLast.op = "voiceFails" =>
    /\ voiceLast.handled
    /\ \E i \in 1..Len(MockTranscriptions) :
         [transcript |-> transcript, response |-> response, audioUrl |-> audioUrl]
           = DemoFallback(i)

\* C29: a playback is ended only by stopPlayback or by the timer its own
\* playResponse call started: a timer that sets isPlaying to false while a
\* playback runs is the timer of that playback.
C29_OnlyOwnTimerEndsPlayback ==
  [][\A id \in timers : (TimerFires(id) /\ isPlaying) => id = playback]_vars

\* C26: a task that was listed, with the status it was last listed with, is
\* still in the task list with that status whenever the task list is shown,
\* also after another tab was shown in between, unless the step is a call of
\* updateTaskStatus on that task.
C26_TasksPersist ==
  [][TaskManagerShown' =>
       \A p \in shown :
         \/ StatusOf(tasks', p[1]) = p[2]
         \/ last'.op = "updateTaskStatus" /\ last'.id = p[1]]_vars

\* C27: updateTaskStatus(taskId, status) leaves the length and the order of
\* the task list as they are, leaves every task with another id as it is,
\* changes nothing but the status of a task with that id, and leaves the
\* whole list as it is when no task has that id.
C27_UpdateChangesOnlyStatus ==
  [][\A id \in TaskIdInputs, st \in Statuses :
       CallUpdateTaskStatus(id, st) =>
         /\ Len(tasks') = Len(tasks)
         /\ \A i \in 1..Len(tasks) :
              IF tasks[i].id = id
                THEN tasks'[i] = [tasks[i] EXCEPT !.status = st]
                ELSE tasks'[i] = tasks[i]
         /\ StatusOf(tasks, id) = "none" => tasks' = tasks]_vars

\* C27 witness: updateTaskStatus changed the status of the third task of the
\* list, and the other four tasks are as fetchTasks set them.
C27_Witness ==
  /\ last.op = "updateTaskStatus"
  /\ last.id = 3
  /\ last.was = "pending"
  /\ last.status = "completed"
  /\ Len(tasks) = Len(MockTasks)
  /\ tasks[3] = [MockTasks[3] EXCEPT !.status = "completed"]
  /\ \A i \in {1, 2, 4, 5} : tasks[i] = MockTasks[i]

\* Words that differ only in the case of their letters
CaseClasses ==
  { {"Review", "review", "REVIEW"}, {"A", "a"}, {"Code", "code"}, {"Team", "team"},
    {"Prepare", "prepare"}, {"Update", "update"}, {"Analyze", "analyze"}, {"Q4", "q4"},
    {"Create", "create"}, {"Add", "add"}, {"Schedule", "schedule"} }

SameIgnoringCase(a, b) == a = b \/ \E c \in CaseClasses : a \in c /\ b \in c

ContainsIgnoringCase(hay, needle) ==
  \E i \in 0..(Len(hay) - Len(needle)) :
    \A j \in 1..Len(needle) : SameIgnoringCase(hay[i + j], needle[j])

\* C28: the listed tasks are exactly the tasks that have the selected status
\* (any status under 'all') and whose title or description contains the
\* search term, letter case ignored, in the order they have in tasks.
C28_FilteredTasksExact ==
  TaskManagerShown =>
    LET selected(t) ==
          /\ filter = "all" \/ t.status = filter
          /\ \/ ContainsIgnoringCase(t.title, searchTerm)
             \/ ContainsIgnoringCase(t.description, searchTerm)
        idx == {i \in 1..Len(tasks) : selected(tasks[i])}
        nth(k) == CHOOSE i \in idx : Cardinality({j \in idx : j < i}) = k - 1
    IN /\ Len(filteredTasks) = Cardinality(idx)
       /\ \A k \in 1..Len(filteredTasks) : filteredTasks[k] = tasks[nth(k)]

\* C28 witness: after a task was added, the search for REVIEW among the
\* pending tasks lists tasks 1 and 5, found by "Review" and "review".
C28_Witness ==
  /\ TaskManagerShown
  /\ Len(tasks) = Len(MockTasks) + 1
  /\ filter = "pending"
  /\ searchTerm = <<"REVIEW">>
  /\ Len(filteredTasks) = 2
  /\ filteredTasks[1].id = 1
  /\ filteredTasks[2].id = 5

\* C30: from the current date, in the current view, navigateDate('next')
\* followed by navigateDate('prev') leads back to the current date, and so
\* does 'prev' followed by 'next'.
C30_NavigateDateInvertible ==
  CalendarShown =>
    /\ NewDate(NewDate(currentDate, view, "next"), view, "prev") = currentDate
    /\ NewDate(NewDate(currentDate, view, "prev"), view, "next") = currentDate

====
